---- MODULE Spec2Model ----
(***************************************************************************)
(* State-machine model of src/bot.py: the SQLite store (SearchDB), the     *)
(* FTS5 projection kept by its triggers, and the Telegram handlers that    *)
(* read and write it.                                                      *)
(*                                                                         *)
(* Conventions.  A Python str is a sequence of one-character strings.  An  *)
(* Optional value is a sequence of length 0 (None) or 1.  The handlers run *)
(* one update at a time (Application.builder() keeps the default           *)
(* concurrent_updates=False), so one action is one whole handler run.      *)
(* The columns added_at (datetime.utcnow()) are not modelled: no handler   *)
(* reads them.                                                             *)
(*                                                                         *)
(* Spec is the bot from startup on.  SpecQuery, SpecSnippet, SpecForward,  *)
(* SpecCommands and SpecOwner run single handlers and functions over wider *)
(* inputs than Spec delivers; SpecConcurrent runs two pending handler      *)
(* tasks in either order, and SpecInterleaved runs pending command tasks   *)
(* in any order with allow_channel suspended at its await of get_chat.     *)
(***************************************************************************)
EXTENDS Integers, Sequences, FiniteSets, TLC

VARIABLES
    OWNER_USER_ID,     \* src/bot.py:24, read once from the environment
    pc,                \* "starting" | "running" | "aborted"
    messages,          \* table messages: a set of rows
    messages_fts,      \* table messages_fts: the set of index postings
    bot_admins,        \* table bot_admins: the set of user_id
    allowed_channels,  \* table allowed_channels: a set of rows
    update,            \* the Update the last handler ran on
    replies,           \* what that handler sent with reply_text, in order
    results,           \* what db.search returned to that handler
    rendered,          \* the results as that handler formatted them
    trigger,           \* the trigger that handler's upsert fired, with old/new
    raised,            \* the exception that handler let escape ("" if none)
    tasks,             \* the updates whose handler tasks are created and not yet run
    awaiting           \* the allow_channel tasks suspended in get_chat

db == <<messages, messages_fts, bot_admins, allowed_channels>>
vars == <<OWNER_USER_ID, pc, messages, messages_fts, bot_admins,
          allowed_channels, update, replies, results, rendered, trigger,
          raised, tasks, awaiting>>

----------------------------------------------------------------------------
(* Bounds of the model *)

MaxUser == 2
Users == 1 .. MaxUser
OwnerIds == {-1, 0, 1}
\* the longest text of SpecQuery
MaxQueryLen == 4
\* the longest stored body of SpecSnippet
MaxBodyLen == 162
\* the largest message_id of SpecForward
MaxMessageId == 3
\* the largest owner id and stored admin id of SpecOwner
MaxOwnerId == 3

----------------------------------------------------------------------------
(* Python values *)

None == <<>>
Some(x) == <<x>>

\* bool(x) of an Optional[str]: None and "" are falsy
Truthy(o) == o # None /\ o[1] # <<>>
\* bool(x) of an Optional[int]: None and 0 are falsy
IntTruthy(o) == o # None /\ o[1] # 0
Or_second_first(a, b) == IF Truthy(b) THEN b ELSE a
\* a or b
Or(a, b) == IF Truthy(a) THEN a ELSE b
IntOr_second_first(a, b) == IF IntTruthy(b) THEN b ELSE a
IntOr(a, b) == IF IntTruthy(a) THEN a ELSE b

Max(S) == CHOOSE m \in S : \A x \in S : x <= m

----------------------------------------------------------------------------
(* str <-> int *)

Digits == <<"0", "1", "2", "3", "4", "5", "6", "7", "8", "9">>
IsDigit(c) == \E d \in 1 .. 10 : Digits[d] = c
DigitVal(c) == (CHOOSE d \in 1 .. 10 : Digits[d] = c) - 1

RECURSIVE NatStr(_)
\* str(n) for n >= 0
NatStr(n) == IF n < 10 THEN <<Digits[n + 1]>>
             ELSE Append(NatStr(n \div 10), Digits[(n % 10) + 1])
IntStr(n) == IF n < 0 THEN <<"-">> \o NatStr(-n) ELSE NatStr(n)

RECURSIVE DigitsVal(_, _)
DigitsVal(s, acc) == IF s = <<>> THEN acc
                     ELSE DigitsVal(Tail(s), 10 * acc + DigitVal(Head(s)))
AllDigits(s) == s # <<>> /\ \A i \in 1 .. Len(s) : IsDigit(s[i])
\* int(s) raises ValueError unless s is an optional sign and decimal digits
IntParses(s) == \/ AllDigits(s)
                \/ (s # <<>> /\ s[1] \in {"-", "+"} /\ AllDigits(Tail(s)))
ParseInt(s) == IF s[1] = "-" THEN -DigitsVal(Tail(s), 0)
               ELSE IF s[1] = "+" THEN DigitsVal(Tail(s), 0)
               ELSE DigitsVal(s, 0)

----------------------------------------------------------------------------
(* FTS5: the unicode61 tokenizer and the index postings *)

Upper == <<"U", "C">>
LowerOf == <<"u", "c">>
Fold(c) == IF \E k \in 1 .. 2 : Upper[k] = c
           THEN LowerOf[CHOOSE k \in 1 .. 2 : Upper[k] = c] ELSE c
IsSeparator(c) == c \in {" ", "\n", "\""}

\* where a maximal run of non-separator characters starts and where it ends
TokenStarts(s) ==
    {i \in 1 .. Len(s) : ~IsSeparator(s[i]) /\ (i = 1 \/ IsSeparator(s[i - 1]))}
TokenEnd(s, start) ==
    CHOOSE j \in start .. Len(s) :
        /\ \A k \in start .. j : ~IsSeparator(s[k])
        /\ (j = Len(s) \/ IsSeparator(s[j + 1]))
\* the terms of a column value, in order
Tokenize(s) ==
    LET starts == TokenStarts(s)
    IN [n \in 1 .. Cardinality(starts) |->
           LET start == CHOOSE i \in starts :
                            Cardinality({j \in starts : j <= i}) = n
           IN [k \in 1 .. TokenEnd(s, start) - start + 1 |-> Fold(s[start + k - 1])]]

ColumnPostings(rowid, col, s) ==
    LET terms == Tokenize(s)
    IN {[rowid |-> rowid, col |-> col, pos |-> p, term |-> terms[p]] :
            p \in 1 .. Len(terms)}
Postings(rowid, text, channel_title) ==
    ColumnPostings(rowid, "text", text)
        \cup ColumnPostings(rowid, "channel_title", channel_title)

\* INSERT INTO messages_fts(rowid, text, channel_title)
fts_insert(fts, rowid, text, channel_title) ==
    fts \cup Postings(rowid, text, channel_title)
\* INSERT INTO messages_fts(messages_fts, ...) VALUES('delete', ...): an
\* external-content index removes the postings of the values it is handed
fts_delete(fts, rowid, text, channel_title) ==
    fts \ Postings(rowid, text, channel_title)

messages_ai(fts, new) ==
    fts_insert(fts, new.rowid, new.text, new.channel_title)

messages_au_stale(fts, old, new) ==
    fts_insert(fts, new.rowid, new.text, new.channel_title)
messages_au(fts, old, new) ==
    fts_insert(fts_delete(fts, old.rowid, old.text, old.channel_title),
               new.rowid, new.text, new.channel_title)

----------------------------------------------------------------------------
(* SearchDB *)

ensure_owner_unguarded(admins, owner_user_id) == admins \cup {owner_user_id}
ensure_owner(admins, owner_user_id) ==
    IF owner_user_id <= 0 THEN admins ELSE admins \cup {owner_user_id}

is_bot_admin_any(admins, user_id) == TRUE
is_bot_admin(admins, user_id) == user_id \in admins

add_bot_admin(admins, user_id) == admins \cup {user_id}

remove_bot_admin(admins, user_id) == admins \ {user_id}

add_allowed_channel(chs, channel_id, channel_title, channel_username, added_by) ==
    {c \in chs : c.channel_id # channel_id}
        \cup {[channel_id |-> channel_id, channel_title |-> channel_title,
               channel_username |-> channel_username, added_by |-> added_by]}

remove_allowed_channel_kept(chs, channel_id) == chs
remove_allowed_channel(chs, channel_id) ==
    {c \in chs : c.channel_id # channel_id}

is_allowed_channel_any(chs, channel_id) == TRUE
is_allowed_channel(chs, channel_id) ==
    \E c \in chs : c.channel_id = channel_id

\* the next implicit rowid of a rowid table that never deletes
NextRowid(msgs) == IF msgs = {} THEN 1 ELSE Max({r.rowid : r \in msgs}) + 1

OnConflict_never(msgs, channel_id, message_id) == {}
\* the rows PRIMARY KEY(channel_id, message_id) makes the INSERT conflict with
OnConflict(msgs, channel_id, message_id) ==
    {r \in msgs : r.channel_id = channel_id /\ r.message_id = message_id}

NewRow(rowid, channel_id, channel_title, channel_username, message_id, posted_at, text) ==
    [rowid |-> rowid, channel_id |-> channel_id, channel_title |-> channel_title,
     channel_username |-> channel_username, message_id |-> message_id,
     posted_at |-> posted_at, text |-> text]

DoUpdateSet_keep_date(old, channel_title, channel_username, posted_at, text) ==
    [old EXCEPT !.channel_title = channel_title,
                !.channel_username = channel_username,
                !.text = text]
\* DO UPDATE SET channel_title, channel_username, posted_at, text = excluded.*
DoUpdateSet(old, channel_title, channel_username, posted_at, text) ==
    [old EXCEPT !.channel_title = channel_title,
                !.channel_username = channel_username,
                !.posted_at = posted_at,
                !.text = text]

NoTrigger == [name |-> "", old |-> None, new |-> None]

RECURSIVE FireUpdates(_, _, _, _, _, _)
\* messages_au, once per updated row
FireUpdates(fts, olds, channel_title, channel_username, posted_at, text) ==
    IF olds = {} THEN fts
    ELSE LET old == CHOOSE r \in olds : TRUE
         IN FireUpdates(
                messages_au(fts, old,
                    DoUpdateSet(old, channel_title, channel_username, posted_at, text)),
                olds \ {old}, channel_title, channel_username, posted_at, text)

\* upsert_message: the statement, the trigger it fires, the commit
upsert_message(channel_id, channel_title, channel_username, message_id, posted_at, text) ==
    LET olds == OnConflict(messages, channel_id, message_id)
        new == NewRow(NextRowid(messages), channel_id, channel_title,
                      channel_username, message_id, posted_at, text)
    IN IF olds = {}
       THEN /\ messages' = messages \cup {new}
            /\ messages_fts' = messages_ai(messages_fts, new)
            /\ trigger' = [name |-> "messages_ai", old |-> None, new |-> Some(new)]
       ELSE LET old == CHOOSE r \in olds : TRUE
            IN /\ messages' = (messages \ olds) \cup
                      {DoUpdateSet(r, channel_title, channel_username, posted_at, text) :
                          r \in olds}
               /\ messages_fts' = FireUpdates(messages_fts, olds, channel_title,
                                              channel_username, posted_at, text)
               /\ trigger' = [name |-> "messages_au", old |-> Some(old),
                              new |-> Some(DoUpdateSet(old, channel_title,
                                          channel_username, posted_at, text))]

----------------------------------------------------------------------------
(* Telegram objects the handlers read *)

Chat(id, type, title, username) ==
    [id |-> id, type |-> type, title |-> title, username |-> username]

Message(chat, message_id, date, text, caption, forward_origin, forward_from_chat, forward_from_message_id) ==
    [chat |-> chat, message_id |-> message_id, date |-> date, text |-> text,
     caption |-> caption, forward_origin |-> forward_origin,
     forward_from_chat |-> forward_from_chat,
     forward_from_message_id |-> forward_from_message_id]

\* type: which field of the Update carries the message
Update(handler, type, effective_user, effective_message, args, get_chat) ==
    [handler |-> handler, type |-> type, effective_user |-> effective_user,
     effective_message |-> effective_message, args |-> args,
     get_chat |-> get_chat]

\* update.channel_post, update.message
channel_post(u) == IF u.type = "channel_post" THEN u.effective_message ELSE None
message(u) == IF u.type = "message" THEN u.effective_message ELSE None

actor_user_id(u) == u.effective_user

\* post.date.isoformat()
isoformat(date) == IntStr(date)

UnknownChannel ==
    <<"U", "n", "k", "n", "o", "w", "n", " ", "C", "h", "a", "n", "n", "e", "l">>
\* chat.title or "Unknown Channel"
TitleOf(chat) == IF Truthy(chat.title) THEN chat.title[1] ELSE UnknownChannel

Reply(text, data) == [text |-> text, data |-> data]

----------------------------------------------------------------------------
(* The updates the model delivers *)

T_inv == <<"i", "n", "v", " ", "m", "a", "r">>
T_tax == <<"t", "a", "x">>

ChanA == Chat(100, "channel", Some(<<"f", "i", "n">>), Some(<<"f", "c">>))
\* the same channel after it lost its title and public handle
ChanA2 == Chat(100, "channel", None, None)
ChanB == Chat(200, "channel", Some(<<"o", "p", "s">>), None)
Group == Chat(300, "supergroup", Some(<<"g", "r">>), None)
Private(user) == Chat(user, "private", None, None)

Actors == {None} \cup {Some(user) : user \in Users}
ChatOfActor(a) == IF a = None THEN Group ELSE Private(a[1])

LivePost(chat, message_id, date, text, caption) ==
    Update("index_channel_post", "channel_post", None,
           Some(Message(chat, message_id, date, text, caption, FALSE, None, None)),
           <<>>, None)

ChannelPostUpdates ==
    { LivePost(ChanA, 1, 1, Some(T_inv), Some(T_tax)),
      LivePost(ChanA2, 1, 2, None, Some(T_tax)),
      LivePost(ChanA, 1, 1, None, None),
      LivePost(ChanA2, 1, 2, Some(<<>>), None),
      LivePost(ChanB, 7, 1, Some(T_inv), None),
      Update("index_channel_post", "edited_channel_post", None,
             Some(Message(ChanA, 1, 1, Some(T_inv), None, FALSE, None, None)),
             <<>>, None) }

Forward(a, date, text, caption, forward_origin, from_chat, from_message_id) ==
    Update("index_forwarded_history", "message", a,
           Some(Message(ChatOfActor(a), 7, date, text, caption, forward_origin,
                        from_chat, from_message_id)),
           <<>>, None)

ForwardUpdates ==
    UNION { { Forward(a, 1, Some(T_inv), Some(T_tax), TRUE, Some(ChanA), Some(1)),
              Forward(a, 1, None, None, TRUE, Some(ChanB), Some(1)) }
            : a \in Actors }
    \cup { Forward(Some(1), 1, Some(T_inv), None, TRUE, Some(ChanB), None),
           Forward(Some(1), 1, Some(T_inv), None, TRUE, None, None),
           Forward(Some(1), 1, Some(T_inv), None, TRUE, Some(Group), Some(1)),
           Forward(Some(1), 1, Some(T_inv), None, FALSE, None, None),
           Update("index_forwarded_history", "message", Some(1), None, <<>>, None) }

CommandMessage(a) ==
    Some(Message(ChatOfActor(a), 9, 1, Some(<<"/">>), None, FALSE, None, None))
Command(handler, a, args, get_chat) ==
    Update(handler, "message", a, CommandMessage(a), args, get_chat)

NotANumber == <<"x">>
\* a command with no argument, and one whose argument is not a number
BadArgs == {<<>>, <<NotANumber>>}

AddAdminUpdates ==
    {Command("add_admin", a, <<IntStr(user)>>, None) :
        a \in Actors, user \in Users \ {1}}
    \cup {Command("add_admin", Some(1), args, None) : args \in BadArgs}
RemoveAdminUpdates ==
    {Command("remove_admin", a, <<IntStr(user)>>, None) :
        a \in Actors, user \in Users}
    \cup {Command("remove_admin", Some(1), args, None) : args \in BadArgs}
ListAdminsUpdates == {Command("list_admins", Some(MaxUser), <<>>, None)}
\* get_chat: what context.bot.get_chat returns (None: it raises)
AllowChannelUpdates ==
    {Command("allow_channel", a, <<IntStr(100)>>, Some(ChanA)) : a \in Actors}
    \cup {Command("allow_channel", Some(1), args, None) : args \in BadArgs}
    \cup { Command("allow_channel", Some(1), <<IntStr(200)>>, Some(ChanB)),
           Command("allow_channel", Some(1), <<IntStr(100)>>, None),
           Command("allow_channel", Some(1), <<IntStr(300)>>, Some(Group)) }
RemoveChannelUpdates ==
    {Command("remove_channel", a, <<IntStr(100)>>, None) : a \in Actors}
    \cup {Command("remove_channel", Some(1), <<IntStr(200)>>, None)}
    \cup {Command("remove_channel", Some(1), args, None) : args \in BadArgs}
ListChannelsUpdates == {Command("list_channels", Some(MaxUser), <<>>, None)}
SyncHelpUpdates == {Command("sync_help", Some(1), <<>>, None)}
\* CommandHandler also takes an edited message
StartUpdates ==
    { Command("start", Some(1), <<>>, None),
      Update("start", "edited_message", Some(1), CommandMessage(Some(1)), <<>>, None) }
HelpUpdates == {Command("help_cmd", Some(1), <<>>, None)}

TextMessage(chat, text) ==
    Some(Message(chat, 8, 1, text, None, FALSE, None, None))
Query(text) ==
    Update("search_messages", "message", Some(MaxUser),
           TextMessage(Private(MaxUser), Some(text)), <<>>, None)

Q_inv == <<"i", "n", "v">>
Q_padded == <<" ", "t", "a", "x", " ">>
Q_title == <<"f", "i", "n">>
Q_short == <<" ", "m">>
Q_unbalanced == <<"\"", "i", "n", "v">>

SearchUpdates ==
    { Query(Q_inv), Query(Q_padded), Query(Q_title), Query(Q_short),
      Query(Q_unbalanced),
      Update("search_messages", "message", Some(1),
             TextMessage(Group, Some(Q_inv)), <<>>, None),
      Update("search_messages", "edited_message", Some(1),
             TextMessage(Private(1), Some(Q_inv)), <<>>, None) }

NoUpdate == Update("", "", None, None, <<>>, None)

----------------------------------------------------------------------------
(* SearchDB.search *)

MAX_RESULTS == 5

Min(a, b) == IF a < b THEN a ELSE b

Strip_none(s) == s
IsSpace(c) == c \in {" ", "\n"}
RECURSIVE LStrip(_)
LStrip(s) == IF s # <<>> /\ IsSpace(Head(s)) THEN LStrip(Tail(s)) ELSE s
RECURSIVE RStrip(_)
RStrip(s) == IF s # <<>> /\ IsSpace(s[Len(s)])
             THEN RStrip(SubSeq(s, 1, Len(s) - 1)) ELSE s
\* str.strip()
Strip(s) == RStrip(LStrip(s))

QuoteCount(q) == Cardinality({i \in 1 .. Len(q) : q[i] = "\""})
\* the FTS5 query parser rejects an unterminated string
QueryParses(q) == QuoteCount(q) % 2 = 0

Flush(cur) == IF Tokenize(cur) = <<>> THEN <<>> ELSE <<Tokenize(cur)>>
RECURSIVE QScan(_, _, _, _)
\* The phrases of a query: a bareword is a phrase of one term, a quoted string
\* a phrase of its terms; the phrases are ANDed.  (A doubled quote inside a
\* string is read as close-and-open; no query of SearchUpdates has one.)
QScan(q, i, quoted, cur) ==
    IF i > Len(q) THEN Flush(cur)
    ELSE IF q[i] = "\"" THEN Flush(cur) \o QScan(q, i + 1, ~quoted, <<>>)
    ELSE IF ~quoted /\ IsSpace(q[i]) THEN Flush(cur) \o QScan(q, i + 1, quoted, <<>>)
    ELSE QScan(q, i + 1, quoted, Append(cur, q[i]))
QueryPhrases(q) == QScan(q, 1, FALSE, <<>>)

PhraseAt(fts, rowid, col, p, phrase) ==
    \A k \in 1 .. Len(phrase) :
        [rowid |-> rowid, col |-> col, pos |-> p + k - 1, term |-> phrase[k]] \in fts
\* messages_fts MATCH ?: the rowids whose postings hold every phrase
Match(fts, q) ==
    LET phrases == QueryPhrases(q)
    IN {rowid \in {e.rowid : e \in fts} :
            \A n \in 1 .. Len(phrases) :
                \E e \in fts :
                    /\ e.rowid = rowid
                    /\ e.term = phrases[n][1]
                    /\ PhraseAt(fts, rowid, e.col, e.pos, phrases[n])}

SearchResult(m) ==
    [channel_id |-> m.channel_id, channel_title |-> m.channel_title,
     channel_username |-> m.channel_username, message_id |-> m.message_id,
     posted_at |-> m.posted_at, text |-> m.text]

JoinAllowed_skipped(chs, m) == TRUE
\* JOIN allowed_channels c ON c.channel_id = m.channel_id
JoinAllowed(chs, m) == \E c \in chs : c.channel_id = m.channel_id

\* the rows of the SELECT before ORDER BY and LIMIT
search_rows(query) ==
    LET matched == Match(messages_fts, query)
    IN {SearchResult(m) : m \in {r \in messages :
            r.rowid \in matched /\ JoinAllowed(allowed_channels, r)}}

\* ORDER BY bm25(messages_fts) LIMIT ?: the rank is not modelled, so any
\* `limit` of the rows may be the ones returned
search(query, limit) ==
    LET rows == search_rows(query)
    IN {R \in SUBSET rows : Cardinality(R) = Min(limit, Cardinality(rows))}

----------------------------------------------------------------------------
(* Formatting a result *)

Replace(s, old, new) == [i \in 1 .. Len(s) |-> IF s[i] = old THEN new ELSE s[i]]

Ellipsize_late(snippet) ==
    IF Len(snippet) > 160 THEN SubSeq(snippet, 1, 160) \o <<".", ".", ".">>
    ELSE snippet
\* if len(snippet) > 160: snippet = snippet[:157] + "..."
Ellipsize(snippet) ==
    IF Len(snippet) > 160 THEN SubSeq(snippet, 1, 157) \o <<".", ".", ".">>
    ELSE snippet

TMe == <<"h", "t", "t", "p", "s", ":", "/", "/", "t", ".", "m", "e", "/">>
build_message_link(result) ==
    IF ~Truthy(result.channel_username) THEN None
    ELSE Some(TMe \o result.channel_username[1] \o <<"/">> \o IntStr(result.message_id))

\* The parts of the text format_result builds.  The index is left out (the
\* order of the results is not modelled) and date_text is the stored posted_at
\* (the model's dates are not calendar dates).
format_result(result) ==
    [channel_title |-> result.channel_title,
     date_text |-> result.posted_at,
     snippet |-> Ellipsize(Replace(Strip(result.text), "\n", " ")),
     link |-> build_message_link(result)]

----------------------------------------------------------------------------
(* Handlers *)

\* a handler is entered with the update the dispatcher hands it
Handled(u) ==
    /\ pc = "running"
    /\ update' = u
    /\ tasks' = tasks \ {u}
    /\ UNCHANGED awaiting
    /\ UNCHANGED <<OWNER_USER_ID, pc>>

\* the handler returns having sent `sent` and written nothing
Return(sent) ==
    /\ UNCHANGED db
    /\ trigger' = NoTrigger
    /\ replies' = sent
    /\ results' = {}
    /\ rendered' = <<>>
    /\ raised' = ""

Text(literal) == <<Reply(literal, {})>>

require_bot_admin_open(admins, u) ==
    [manager_id |-> actor_user_id(u), replies |-> <<>>]
require_bot_admin(admins, u) ==
    LET user_id == actor_user_id(u)
    IN IF user_id = None \/ ~is_bot_admin(admins, user_id[1])
       THEN [manager_id |-> None,
             replies |-> IF u.effective_message # None
                         THEN Text("Only bot managers can use this command.")
                         ELSE <<>>]
       ELSE [manager_id |-> user_id, replies |-> <<>>]

OwnerOnly_any(manager_id, owner) == TRUE
\* not (manager_id != OWNER_USER_ID)
OwnerOnly(manager_id, owner) == manager_id = owner

TargetsOwner_never(admin_id, owner) == FALSE
\* admin_id == OWNER_USER_ID
TargetsOwner(admin_id, owner) == admin_id = owner

except_ValueError_missing(literal) ==
    /\ UNCHANGED db
    /\ trigger' = NoTrigger
    /\ replies' = <<>>
    /\ results' = {}
    /\ rendered' = <<>>
    /\ raised' = "ValueError"
\* int(context.args[0]) raised: the handler answers and returns
except_ValueError(literal) == Return(Text(literal))

start(u) ==
    /\ Handled(u)
    /\ IF message(u) = None
       THEN /\ UNCHANGED db
            /\ trigger' = NoTrigger
            /\ replies' = <<>>
            /\ results' = {}
            /\ rendered' = <<>>
            /\ raised' = "AttributeError"
       ELSE Return(Text("Hi! I can search channel posts."))

help_cmd(u) == start(u)

add_admin(u) ==
    /\ Handled(u)
    /\ LET gate == require_bot_admin(bot_admins, u)
       IN IF gate.manager_id = None THEN Return(gate.replies)
          ELSE IF ~OwnerOnly(gate.manager_id[1], OWNER_USER_ID)
          THEN Return(Text("Only OWNER_USER_ID can add bot managers."))
          ELSE IF u.args = <<>> THEN Return(Text("Usage: /add_admin <user_id>"))
          ELSE IF ~IntParses(u.args[1]) THEN except_ValueError("user_id must be a number.")
          ELSE /\ bot_admins' = add_bot_admin(bot_admins, ParseInt(u.args[1]))
               /\ UNCHANGED <<messages, messages_fts, allowed_channels>>
               /\ trigger' = NoTrigger
               /\ replies' = <<Reply("Added bot manager: ", {ParseInt(u.args[1])})>>
               /\ results' = {}
               /\ rendered' = <<>>
               /\ raised' = ""

remove_admin(u) ==
    /\ Handled(u)
    /\ LET gate == require_bot_admin(bot_admins, u)
       IN IF gate.manager_id = None THEN Return(gate.replies)
          ELSE IF ~OwnerOnly(gate.manager_id[1], OWNER_USER_ID)
          THEN Return(Text("Only OWNER_USER_ID can remove bot managers."))
          ELSE IF u.args = <<>> THEN Return(Text("Usage: /remove_admin <user_id>"))
          ELSE IF ~IntParses(u.args[1]) THEN except_ValueError("user_id must be a number.")
          ELSE IF TargetsOwner(ParseInt(u.args[1]), OWNER_USER_ID)
          THEN Return(Text("Owner cannot be removed."))
          ELSE /\ bot_admins' = remove_bot_admin(bot_admins, ParseInt(u.args[1]))
               /\ UNCHANGED <<messages, messages_fts, allowed_channels>>
               /\ trigger' = NoTrigger
               /\ replies' = <<Reply("Removed bot manager: ", {ParseInt(u.args[1])})>>
               /\ results' = {}
               /\ rendered' = <<>>
               /\ raised' = ""

list_admins(u) ==
    /\ Handled(u)
    /\ LET gate == require_bot_admin(bot_admins, u)
       IN IF gate.manager_id = None THEN Return(gate.replies)
          ELSE Return(<<Reply("Bot managers:", bot_admins)>>)

NotAChannel_never(chat) == FALSE
\* chat.type != ChatType.CHANNEL
NotAChannel(chat) == chat.type # "channel"

allow_channel(u) ==
    /\ Handled(u)
    /\ LET gate == require_bot_admin(bot_admins, u)
           chat == u.get_chat
       IN IF gate.manager_id = None THEN Return(gate.replies)
          ELSE IF u.args = <<>> THEN Return(Text("Usage: /allow_channel <channel_id>"))
          ELSE IF ~IntParses(u.args[1]) THEN except_ValueError("channel_id must be a number.")
          ELSE IF chat = None
          THEN Return(Text("I can't access this channel. Add me as admin first, then retry."))
          ELSE IF NotAChannel(chat[1])
          THEN Return(Text("This chat_id is not a channel."))
          ELSE /\ allowed_channels' =
                      add_allowed_channel(allowed_channels, chat[1].id, TitleOf(chat[1]),
                                          chat[1].username, gate.manager_id[1])
               /\ UNCHANGED <<messages, messages_fts, bot_admins>>
               /\ trigger' = NoTrigger
               /\ replies' = <<Reply("Channel allowed: ", {chat[1].id})>>
               /\ results' = {}
               /\ rendered' = <<>>
               /\ raised' = ""

remove_channel(u) ==
    /\ Handled(u)
    /\ LET gate == require_bot_admin(bot_admins, u)
       IN IF gate.manager_id = None THEN Return(gate.replies)
          ELSE IF u.args = <<>> THEN Return(Text("Usage: /remove_channel <channel_id>"))
          ELSE IF ~IntParses(u.args[1]) THEN except_ValueError("channel_id must be a number.")
          ELSE /\ allowed_channels' =
                      remove_allowed_channel(allowed_channels, ParseInt(u.args[1]))
               /\ UNCHANGED <<messages, messages_fts, bot_admins>>
               /\ trigger' = NoTrigger
               /\ replies' = <<Reply("Channel removed: ", {ParseInt(u.args[1])})>>
               /\ results' = {}
               /\ rendered' = <<>>
               /\ raised' = ""

\* the rows are listed ORDER BY channel_title; the reply is modelled by the
\* set of channel ids it lists
list_channels(u) ==
    /\ Handled(u)
    /\ LET gate == require_bot_admin(bot_admins, u)
       IN IF gate.manager_id = None THEN Return(gate.replies)
          ELSE IF allowed_channels = {}
          THEN Return(Text("No channels are allowed yet."))
          ELSE Return(<<Reply("Allowed channels:",
                              {c.channel_id : c \in allowed_channels})>>)

sync_help(u) ==
    /\ Handled(u)
    /\ Return(Text("Old data sync (manual but safe):"))

index_channel_post(u) ==
    /\ Handled(u)
    /\ LET post == channel_post(u)
       IN IF post = None THEN Return(<<>>)
          ELSE IF ~is_allowed_channel(allowed_channels, post[1].chat.id)
          THEN Return(<<>>)
          ELSE LET text == Or(post[1].text, post[1].caption)
               IN IF ~Truthy(text) THEN Return(<<>>)
                  ELSE /\ upsert_message(post[1].chat.id, TitleOf(post[1].chat),
                                         post[1].chat.username, post[1].message_id,
                                         isoformat(post[1].date), text[1])
                       /\ UNCHANGED <<bot_admins, allowed_channels>>
                       /\ replies' = <<>>
                       /\ results' = {}
                       /\ rendered' = <<>>
                       /\ raised' = ""

index_forwarded_history_text_first(u) ==
    /\ Handled(u)
    /\ LET msg == u.effective_message
           user_id == actor_user_id(u)
       IN IF msg = None \/ ~msg[1].forward_origin THEN Return(<<>>)
          ELSE IF user_id = None \/ ~is_bot_admin(bot_admins, user_id[1])
          THEN Return(<<>>)
          ELSE LET from_chat == msg[1].forward_from_chat
                   text == Or(msg[1].text, msg[1].caption)
                   message_id == IntOr(msg[1].forward_from_message_id,
                                       Some(msg[1].message_id))
               IN IF from_chat = None \/ from_chat[1].type # "channel"
                  THEN Return(<<>>)
                  ELSE IF ~Truthy(text) THEN Return(<<>>)
                  ELSE IF ~is_allowed_channel(allowed_channels, from_chat[1].id)
                  THEN Return(Text("This source channel is not approved. Ask a bot manager to /allow_channel first."))
                  ELSE /\ upsert_message(from_chat[1].id, TitleOf(from_chat[1]),
                                         from_chat[1].username, message_id[1],
                                         isoformat(msg[1].date), text[1])
                       /\ UNCHANGED <<bot_admins, allowed_channels>>
                       /\ replies' = Text("Synced 1 old post into search index")
                       /\ results' = {}
                       /\ rendered' = <<>>
                       /\ raised' = ""

index_forwarded_history(u) ==
    /\ Handled(u)
    /\ LET msg == u.effective_message
           user_id == actor_user_id(u)
       IN IF msg = None \/ ~msg[1].forward_origin THEN Return(<<>>)
          ELSE IF user_id = None \/ ~is_bot_admin(bot_admins, user_id[1])
          THEN Return(<<>>)
          ELSE LET from_chat == msg[1].forward_from_chat
               IN IF from_chat = None \/ from_chat[1].type # "channel"
                  THEN Return(<<>>)
                  ELSE IF ~is_allowed_channel(allowed_channels, from_chat[1].id)
                  THEN Return(Text("This source channel is not approved. Ask a bot manager to /allow_channel first."))
                  ELSE LET text == Or(msg[1].text, msg[1].caption)
                           message_id == IntOr(msg[1].forward_from_message_id,
                                               Some(msg[1].message_id))
                       IN IF ~Truthy(text) THEN Return(<<>>)
                          ELSE /\ upsert_message(from_chat[1].id, TitleOf(from_chat[1]),
                                                 from_chat[1].username, message_id[1],
                                                 isoformat(msg[1].date), text[1])
                               /\ UNCHANGED <<bot_admins, allowed_channels>>
                               /\ replies' = Text("Synced 1 old post into search index")
                               /\ results' = {}
                               /\ rendered' = <<>>
                               /\ raised' = ""

except_OperationalError_missing ==
    /\ UNCHANGED db
    /\ trigger' = NoTrigger
    /\ replies' = <<>>
    /\ results' = {}
    /\ rendered' = <<>>
    /\ raised' = "sqlite3.OperationalError"
\* db.search raised: the handler answers and returns
except_OperationalError ==
    Return(Text("I couldn't understand that search. Try simple keywords like: budget report"))

search_messages(u) ==
    /\ Handled(u)
    /\ LET msg == message(u)
       IN IF msg = None \/ ~Truthy(msg[1].text) THEN Return(<<>>)
          ELSE IF msg[1].chat.type # "private" THEN Return(<<>>)
          ELSE LET query == Strip(msg[1].text[1])
               IN IF Len(query) < 2
                  THEN Return(Text("Please type at least 2 characters to search."))
                  ELSE IF ~QueryParses(query) THEN except_OperationalError
                  ELSE \E found \in search(query, MAX_RESULTS) :
                          /\ UNCHANGED db
                          /\ trigger' = NoTrigger
                          /\ results' = found
                          /\ rendered' = [result \in found |-> format_result(result)]
                          /\ raised' = ""
                          /\ replies' = IF found = {}
                                        THEN Text("No results found. Try another keyword.")
                                        ELSE Text("Search results")

\* post_init: runs once, before any update is dispatched
verify_owner_is_admin ==
    /\ pc = "starting"
    /\ IF OWNER_USER_ID <= 0
       THEN /\ pc' = "aborted"
            /\ raised' = "RuntimeError"
            /\ UNCHANGED bot_admins
       ELSE /\ pc' = "running"
            /\ raised' = ""
            /\ bot_admins' = ensure_owner(bot_admins, OWNER_USER_ID)
    /\ UNCHANGED <<OWNER_USER_ID, messages, messages_fts, allowed_channels,
                   update, replies, results, rendered, trigger, tasks, awaiting>>

----------------------------------------------------------------------------
(* The specification *)

Init ==
    /\ OWNER_USER_ID \in OwnerIds
    /\ pc = "starting"
    /\ messages = {}
    /\ messages_fts = {}
    /\ bot_admins = {}
    /\ allowed_channels = {}
    /\ update = NoUpdate
    /\ replies = <<>>
    /\ results = {}
    /\ rendered = <<>>
    /\ trigger = NoTrigger
    /\ raised = ""
    /\ tasks = {}
    /\ awaiting = {}

Next ==
    \/ verify_owner_is_admin
    \/ \E u \in StartUpdates : start(u)
    \/ \E u \in HelpUpdates : help_cmd(u)
    \/ \E u \in AddAdminUpdates : add_admin(u)
    \/ \E u \in RemoveAdminUpdates : remove_admin(u)
    \/ \E u \in ListAdminsUpdates : list_admins(u)
    \/ \E u \in AllowChannelUpdates : allow_channel(u)
    \/ \E u \in RemoveChannelUpdates : remove_channel(u)
    \/ \E u \in ListChannelsUpdates : list_channels(u)
    \/ \E u \in SyncHelpUpdates : sync_help(u)
    \/ \E u \in ChannelPostUpdates : index_channel_post(u)
    \/ \E u \in ForwardUpdates : index_forwarded_history(u)
    \/ \E u \in SearchUpdates : search_messages(u)

Spec == Init /\ [][Next]_vars

----------------------------------------------------------------------------
(* search_messages on every short text *)

\* the store after the owner allowed channel 100 and it posted `rows`
Running(rows) ==
    /\ OWNER_USER_ID = 1
    /\ pc = "running"
    /\ messages = rows
    /\ messages_fts = UNION {Postings(r.rowid, r.text, r.channel_title) : r \in rows}
    /\ bot_admins = {1}
    /\ allowed_channels = add_allowed_channel({}, ChanA.id, TitleOf(ChanA), ChanA.username, 1)
    /\ update = NoUpdate
    /\ replies = <<>>
    /\ results = {}
    /\ rendered = <<>>
    /\ trigger = NoTrigger
    /\ raised = ""
    /\ awaiting = {}

Post(message_id, date, text) ==
    NewRow(message_id, ChanA.id, TitleOf(ChanA), ChanA.username, message_id,
           isoformat(date), text)

QueryAlphabet == {"a", " ", "\n", "\""}
QueryTexts == UNION {[1 .. n -> QueryAlphabet] : n \in 0 .. MaxQueryLen}

\* one text message is waiting to be handled
InitQuery ==
    /\ Running({Post(1, 1, <<"a", "a", " ", "a">>)})
    /\ \E text \in QueryTexts : tasks = {Query(text)}
NextQuery == \E u \in tasks : search_messages(u)
SpecQuery == InitQuery /\ [][NextQuery]_vars

----------------------------------------------------------------------------
(* format_result on bodies of every length *)

BodyShapes == {"plain", "newline", "leading", "trailing"}
\* a body of n characters: letters, but for one newline inside it or one
\* space at one of its ends
Body(n, shape) ==
    [i \in 1 .. n |->
        IF shape = "newline" /\ i = 2 THEN "\n"
        ELSE IF shape = "leading" /\ i = 1 THEN " "
        ELSE IF shape = "trailing" /\ i = n THEN " "
        ELSE "a"]
Bodies == {Body(n, shape) : n \in 1 .. MaxBodyLen, shape \in BodyShapes}

\* channel 100 holds one post, and a query that matches its title is waiting
InitSnippet ==
    /\ \E body \in Bodies : Running({Post(1, 1, body)})
    /\ tasks = {Query(Q_title)}
NextSnippet == \E u \in tasks : search_messages(u)
SpecSnippet == InitSnippet /\ [][NextSnippet]_vars

----------------------------------------------------------------------------
(* index_forwarded_history on every pair of message ids *)

\* Telegram numbers the messages of a chat from 1
MessageIds == 1 .. MaxMessageId
\* the owner forwards a post of channel 100: message_id is the forwarding
\* message's own id, forward_from_message_id the origin's, when Telegram gives it
IdForwardUpdates ==
    {Update("index_forwarded_history", "message", Some(1),
            Some(Message(Private(1), message_id, 1, Some(T_inv), None, TRUE,
                         Some(ChanA), forward_from_message_id)),
            <<>>, None) :
        message_id \in MessageIds,
        forward_from_message_id \in {None} \cup {Some(id) : id \in MessageIds}}

InitForward == Running({}) /\ tasks = {}
NextForward == \E u \in IdForwardUpdates : index_forwarded_history(u)
SpecForward == InitForward /\ [][NextForward]_vars

----------------------------------------------------------------------------
(* The four commands that take an id, with and without a usable argument *)

ArgCommand(handler, number, get_chat) ==
    {Command(handler, a, args, None) : a \in Actors, args \in BadArgs}
        \cup {Command(handler, a, <<IntStr(number)>>, get_chat) : a \in Actors}

InitCommands == Running({}) /\ tasks = {}
NextCommands ==
    \/ \E u \in ArgCommand("add_admin", MaxUser, None) : add_admin(u)
    \/ \E u \in ArgCommand("remove_admin", MaxUser, None) : remove_admin(u)
    \/ \E u \in ArgCommand("allow_channel", ChanA.id, Some(ChanA)) : allow_channel(u)
    \/ \E u \in ArgCommand("remove_channel", ChanA.id, None) : remove_channel(u)
SpecCommands == InitCommands /\ [][NextCommands]_vars

----------------------------------------------------------------------------
(* ensure_owner and the startup check on every owner id *)

\* db.ensure_owner(OWNER_USER_ID), called any number of times before the
\* startup check
ensure_owner_call ==
    /\ pc = "starting"
    /\ bot_admins' = ensure_owner(bot_admins, OWNER_USER_ID)
    /\ UNCHANGED <<OWNER_USER_ID, pc, messages, messages_fts, allowed_channels,
                   update, replies, results, rendered, trigger, raised, tasks,
                   awaiting>>

\* the process starts on a database file whose bot_admins table earlier runs
\* may have filled
InitOwner ==
    /\ OWNER_USER_ID \in -1 .. MaxOwnerId
    /\ pc = "starting"
    /\ messages = {}
    /\ messages_fts = {}
    /\ bot_admins \in SUBSET (1 .. MaxOwnerId)
    /\ allowed_channels = {}
    /\ update = NoUpdate
    /\ replies = <<>>
    /\ results = {}
    /\ rendered = <<>>
    /\ trigger = NoTrigger
    /\ raised = ""
    /\ tasks = {}
    /\ awaiting = {}
NextOwner ==
    \/ ensure_owner_call
    \/ verify_owner_is_admin
    \/ \E u \in AddAdminUpdates : add_admin(u)
    \/ \E u \in RemoveAdminUpdates : remove_admin(u)
    \/ \E u \in ListAdminsUpdates : list_admins(u)
SpecOwner == InitOwner /\ [][NextOwner]_vars

----------------------------------------------------------------------------
(* Two ingestions of one key whose handler tasks run concurrently *)

\* live posts and owner's forwards that all have the key (100, 1)
SameKeyIngestions ==
    { LivePost(ChanA, 1, 1, Some(T_inv), Some(T_tax)),
      LivePost(ChanA2, 1, 2, None, Some(T_tax)),
      LivePost(ChanA, 1, 3, Some(T_tax), None),
      Forward(Some(1), 4, Some(T_tax), None, TRUE, Some(ChanA2), Some(1)),
      Forward(Some(1), 5, Some(T_inv), None, TRUE, Some(ChanA), Some(1)),
      Forward(Some(1), 6, None, Some(T_inv), TRUE, Some(ChanA2), Some(1)),
      Forward(Some(1), 7, Some(T_inv), Some(T_tax), TRUE, Some(ChanA), Some(1)) }

\* Two handler tasks have been created and neither has run; the key is new
\* or already stored.
InitConcurrent ==
    /\ \E rows \in {{}, {Post(1, 0, <<"o", "l", "d">>)}} : Running(rows)
    /\ \E u1, u2 \in SameKeyIngestions : u1 # u2 /\ tasks = {u1, u2}
\* The event loop runs the tasks in either order.  A task gives up control only
\* at an await: index_channel_post has none, index_forwarded_history has its
\* reply_text calls, each the last statement of its branch, after
\* upsert_message has committed.  So a task runs as one step.
NextConcurrent ==
    \/ \E u \in tasks : u.handler = "index_channel_post" /\ index_channel_post(u)
    \/ \E u \in tasks : u.handler = "index_forwarded_history" /\ index_forwarded_history(u)
SpecConcurrent == InitConcurrent /\ [][NextConcurrent]_vars

----------------------------------------------------------------------------
(* Commands of different conversations whose handler tasks interleave *)

\* allow_channel from its entry to `await context.bot.get_chat(channel_id)`,
\* where the task gives up control holding manager_id
allow_channel_begin(u) ==
    /\ pc = "running"
    /\ update' = u
    /\ tasks' = tasks \ {u}
    /\ UNCHANGED <<OWNER_USER_ID, pc>>
    /\ LET gate == require_bot_admin(bot_admins, u)
       IN IF gate.manager_id = None THEN Return(gate.replies) /\ UNCHANGED awaiting
          ELSE IF u.args = <<>>
          THEN Return(Text("Usage: /allow_channel <channel_id>")) /\ UNCHANGED awaiting
          ELSE IF ~IntParses(u.args[1])
          THEN except_ValueError("channel_id must be a number.") /\ UNCHANGED awaiting
          ELSE /\ awaiting' = awaiting \cup
                      {[update |-> u, manager_id |-> gate.manager_id[1]]}
               /\ Return(<<>>)

\* allow_channel from the return of get_chat to its end
allow_channel_resume(t) ==
    /\ pc = "running"
    /\ update' = t.update
    /\ awaiting' = awaiting \ {t}
    /\ UNCHANGED <<OWNER_USER_ID, pc, tasks>>
    /\ LET chat == t.update.get_chat
       IN IF chat = None
          THEN Return(Text("I can't access this channel. Add me as admin first, then retry."))
          ELSE IF NotAChannel(chat[1])
          THEN Return(Text("This chat_id is not a channel."))
          ELSE /\ allowed_channels' =
                      add_allowed_channel(allowed_channels, chat[1].id, TitleOf(chat[1]),
                                          chat[1].username, t.manager_id)
               /\ UNCHANGED <<messages, messages_fts, bot_admins>>
               /\ trigger' = NoTrigger
               /\ replies' = <<Reply("Channel allowed: ", {chat[1].id})>>
               /\ results' = {}
               /\ rendered' = <<>>
               /\ raised' = ""

\* what the owner may have sent, and what another admin may have
OwnerCommandUpdates ==
    {Command("add_admin", Some(1), <<IntStr(user)>>, None) : user \in Users \ {1}}
        \cup {Command("remove_admin", Some(1), <<IntStr(user)>>, None) : user \in Users \ {1}}
        \cup { Command("remove_channel", Some(1), <<IntStr(100)>>, None),
               Command("allow_channel", Some(1), <<IntStr(100)>>, Some(ChanA2)) }
AdminCommandUpdates(user) ==
    { Command("allow_channel", Some(user), <<IntStr(100)>>, Some(ChanA)),
      Command("allow_channel", Some(user), <<IntStr(200)>>, Some(ChanB)),
      Command("allow_channel", Some(user), <<IntStr(300)>>, Some(Group)),
      Command("allow_channel", Some(user), <<IntStr(100)>>, None),
      Command("remove_channel", Some(user), <<IntStr(100)>>, None) }
InterleavedUpdates ==
    OwnerCommandUpdates \cup UNION {AdminCommandUpdates(user) : user \in Users \ {1}}

\* The owner has made every user an admin, channel 100 is granted or not, and
\* handler tasks are pending, at most one for each conversation (the
\* transport delivers the events of one conversation one after the other).
InitInterleaved ==
    /\ OWNER_USER_ID = 1
    /\ pc = "running"
    /\ messages = {}
    /\ messages_fts = {}
    /\ bot_admins = Users
    /\ allowed_channels \in
          {{}, add_allowed_channel({}, ChanA.id, TitleOf(ChanA), ChanA.username, 1)}
    /\ update = NoUpdate
    /\ replies = <<>>
    /\ results = {}
    /\ rendered = <<>>
    /\ trigger = NoTrigger
    /\ raised = ""
    /\ tasks \in {T \in SUBSET InterleavedUpdates :
                     \A u1, u2 \in T : u1 # u2 => u1.effective_user # u2.effective_user}
    /\ awaiting = {}
\* The event loop runs a pending task, or resumes a suspended one.  add_admin,
\* remove_admin and remove_channel await nothing between their entry and
\* their write (require_bot_admin awaits only when it refuses), so each runs
\* as one step.
NextInterleaved ==
    \/ \E u \in tasks : u.handler = "add_admin" /\ add_admin(u)
    \/ \E u \in tasks : u.handler = "remove_admin" /\ remove_admin(u)
    \/ \E u \in tasks : u.handler = "remove_channel" /\ remove_channel(u)
    \/ \E u \in tasks : u.handler = "allow_channel" /\ allow_channel_begin(u)
    \/ \E t \in awaiting : allow_channel_resume(t)
SpecInterleaved == InitInterleaved /\ [][NextInterleaved]_vars

----------------------------------------------------------------------------
(* What the claims speak of, stated on the updates and the tables alone *)

Granted(chs, channel_id) == channel_id \in {c.channel_id : c \in chs}
IsAdmin(admins, a) == a # None /\ a[1] \in admins
IsOwner(a) == a = Some(OWNER_USER_ID)
SameKey(r1, r2) == r1.channel_id = r2.channel_id /\ r1.message_id = r2.message_id

HasText(m) == (m.text # None /\ m.text[1] # <<>>)
                  \/ (m.caption # None /\ m.caption[1] # <<>>)
TextOrCaption(m) == IF m.text # None /\ m.text[1] # <<>> THEN m.text[1]
                    ELSE m.caption[1]

IsLivePost(u) == u.handler = "index_channel_post" /\ u.type = "channel_post"
IsForward(u) ==
    /\ u.handler = "index_forwarded_history"
    /\ u.effective_message # None
    /\ u.effective_message[1].forward_origin
FromChannel(u) ==
    /\ u.effective_message[1].forward_from_chat # None
    /\ u.effective_message[1].forward_from_chat[1].type = "channel"

\* a live post the pipeline accepts, seen from the state it arrives in
LiveAccepted(u) ==
    /\ IsLivePost(u)
    /\ Granted(allowed_channels, u.effective_message[1].chat.id)
    /\ HasText(u.effective_message[1])
\* a forward the pipeline accepts
ForwardAccepted(u) ==
    /\ IsForward(u)
    /\ IsAdmin(bot_admins, u.effective_user)
    /\ FromChannel(u)
    /\ Granted(allowed_channels, u.effective_message[1].forward_from_chat[1].id)
    /\ HasText(u.effective_message[1])
\* an admin's forward from a channel that has no grant
ForwardRefused(u) ==
    /\ IsForward(u)
    /\ IsAdmin(bot_admins, u.effective_user)
    /\ FromChannel(u)
    /\ ~Granted(allowed_channels, u.effective_message[1].forward_from_chat[1].id)

SourceChat(u) == IF IsLivePost(u) THEN u.effective_message[1].chat
                 ELSE u.effective_message[1].forward_from_chat[1]
SourceMessageId(u) ==
    LET m == u.effective_message[1]
    IN IF IsLivePost(u) THEN m.message_id
       ELSE IF m.forward_from_message_id # None /\ m.forward_from_message_id[1] # 0
            THEN m.forward_from_message_id[1]
            ELSE m.message_id
\* the Message an accepted ingestion is to leave in the store
Ingested(u) ==
    [channel_id |-> SourceChat(u).id,
     channel_title |-> IF SourceChat(u).title # None /\ SourceChat(u).title[1] # <<>>
                       THEN SourceChat(u).title[1] ELSE UnknownChannel,
     channel_username |-> SourceChat(u).username,
     message_id |-> SourceMessageId(u),
     posted_at |-> IntStr(u.effective_message[1].date),
     text |-> TextOrCaption(u.effective_message[1])]
WithoutRowid(r) ==
    [channel_id |-> r.channel_id, channel_title |-> r.channel_title,
     channel_username |-> r.channel_username, message_id |-> r.message_id,
     posted_at |-> r.posted_at, text |-> r.text]

NotApproved ==
    <<[text |-> "This source channel is not approved. Ask a bot manager to /allow_channel first.",
       data |-> {}]>>
ManagersOnly == <<[text |-> "Only bot managers can use this command.", data |-> {}]>>
Said(literal) == <<[text |-> literal, data |-> {}]>>

----------------------------------------------------------------------------
(* Claims *)

\* C1: the store holds at most one Message per (channel_id, message_id); an
\* accepted ingestion, live or forwarded, leaves exactly one row for its key,
\* and that row carries the title, handle, timestamp and text of this
\* ingestion, whatever the key held before.
C1_UpsertLastWriteWins ==
    [][ /\ \A r1, r2 \in messages' : SameKey(r1, r2) => r1 = r2
        /\ (LiveAccepted(update') \/ ForwardAccepted(update')) =>
              /\ Cardinality({r \in messages' : SameKey(r, Ingested(update'))}) = 1
              /\ \E r \in messages' : WithoutRowid(r) = Ingested(update')
      ]_vars

\* an ingestion that met a stored row differing in all four fields
C1_Witness ==
    /\ trigger.name = "messages_au"
    /\ trigger.old[1].channel_title # trigger.new[1].channel_title
    /\ trigger.old[1].channel_username # trigger.new[1].channel_username
    /\ trigger.old[1].posted_at # trigger.new[1].posted_at
    /\ trigger.old[1].text # trigger.new[1].text
    /\ IsLivePost(update)
    /\ \E r \in messages : WithoutRowid(r) = Ingested(update)

\* C2: a live post whose channel has no grant when it is handled stores
\* nothing, changes no table, sends no reply and raises nothing; every row a
\* step writes belongs to a channel that holds a grant at that step.
C2_DenyByDefault ==
    [][ /\ (IsLivePost(update')
                /\ ~Granted(allowed_channels, update'.effective_message[1].chat.id)) =>
              (UNCHANGED db /\ replies' = <<>> /\ raised' = "")
        /\ \A r \in messages' \ messages : Granted(allowed_channels, r.channel_id)
      ]_vars

\* a live post with text from a channel without a grant has been handled
C2_Witness ==
    /\ IsLivePost(update)
    /\ HasText(update.effective_message[1])
    /\ ~Granted(allowed_channels, update.effective_message[1].chat.id)
    /\ replies = <<>>
    /\ allowed_channels # {}

\* C3: every result a search returns belongs to a channel that holds a grant
\* at the time of the search, also when rows of a revoked channel that match
\* the query are still stored.
C3_SearchOnlyGranted ==
    \A r \in results : Granted(allowed_channels, r.channel_id)

\* a search returned results while a stored row with the text of one of them
\* belongs to a channel without a grant
C3_Witness ==
    /\ update.handler = "search_messages"
    /\ results # {}
    /\ \E m \in messages :
          /\ ~Granted(allowed_channels, m.channel_id)
          /\ \E r \in results : r.text = m.text

\* C4: once startup has run, the owner is in the admin set; a remove_admin
\* whose target is the owner is rejected and leaves the admin set as it was,
\* whoever sends it.
C4_OwnerStays ==
    [][ /\ pc' = "running" => OWNER_USER_ID' \in bot_admins'
        /\ (update'.handler = "remove_admin"
                /\ update'.args # <<>>
                /\ IntParses(update'.args[1])
                /\ ParseInt(update'.args[1]) = OWNER_USER_ID) =>
              /\ bot_admins' = bot_admins
              /\ replies' \in {ManagersOnly,
                               Said("Only OWNER_USER_ID can remove bot managers."),
                               Said("Owner cannot be removed.")}
      ]_vars

\* the owner asked to remove the owner and was refused
C4_Witness ==
    /\ update.handler = "remove_admin"
    /\ IsOwner(update.effective_user)
    /\ update.args = <<IntStr(OWNER_USER_ID)>>
    /\ replies = Said("Owner cannot be removed.")
    /\ Cardinality(bot_admins) > 1

\* C5: after startup the admin set changes only in an add_admin or
\* remove_admin sent by the owner; sent by anyone else, they leave it as it
\* was and are answered with a denial.
C5_OnlyOwnerChangesAdmins ==
    [][ pc = "running" =>
          /\ bot_admins' # bot_admins =>
                /\ update'.handler \in {"add_admin", "remove_admin"}
                /\ IsOwner(update'.effective_user)
          /\ (update'.handler \in {"add_admin", "remove_admin"}
                  /\ ~IsOwner(update'.effective_user)) =>
                /\ bot_admins' = bot_admins
                /\ replies' = IF ~IsAdmin(bot_admins, update'.effective_user)
                              THEN ManagersOnly
                              ELSE IF update'.handler = "add_admin"
                              THEN Said("Only OWNER_USER_ID can add bot managers.")
                              ELSE Said("Only OWNER_USER_ID can remove bot managers.")
      ]_vars

\* an admin who is not the owner asked to add an admin and was denied
C5_Witness ==
    /\ update.handler = "add_admin"
    /\ IsAdmin(bot_admins, update.effective_user)
    /\ ~IsOwner(update.effective_user)
    /\ replies = Said("Only OWNER_USER_ID can add bot managers.")

\* C6: the grants change only in an allow_channel or remove_channel whose
\* actor is in the admin set when it is handled; from any other actor, or
\* from none, these commands leave the grants as they were and are answered
\* with a denial; no other handler changes the grants.
C6_OnlyAdminsChangeGrants ==
    [][ /\ allowed_channels' # allowed_channels =>
              /\ update'.handler \in {"allow_channel", "remove_channel"}
              /\ IsAdmin(bot_admins, update'.effective_user)
        /\ (update'.handler \in {"allow_channel", "remove_channel"}
                /\ ~IsAdmin(bot_admins, update'.effective_user)) =>
              /\ allowed_channels' = allowed_channels
              /\ replies' = ManagersOnly
      ]_vars

\* a user outside the admin set asked to revoke a granted channel and was denied
C6_Witness ==
    /\ update.handler = "remove_channel"
    /\ update.effective_user # None
    /\ ~IsAdmin(bot_admins, update.effective_user)
    /\ update.args = <<IntStr(100)>>
    /\ Granted(allowed_channels, 100)
    /\ replies = ManagersOnly

\* C7: a forward whose actor is not in the admin set changes no table and
\* gets no reply, whatever its origin and content.
C7_ForwardFromNonAdminIsSilent ==
    [][ (IsForward(update') /\ ~IsAdmin(bot_admins, update'.effective_user)) =>
            (UNCHANGED db /\ replies' = <<>>)
      ]_vars

\* a user outside the admin set forwarded a post with text from a granted channel
C7_Witness ==
    /\ IsForward(update)
    /\ update.effective_user # None
    /\ ~IsAdmin(bot_admins, update.effective_user)
    /\ FromChannel(update)
    /\ Granted(allowed_channels, update.effective_message[1].forward_from_chat[1].id)
    /\ HasText(update.effective_message[1])
    /\ replies = <<>>

\* C8: an admin's forward from a channel without a grant gets exactly the one
\* "not approved" reply and changes no table, with or without text.
C8_ForwardFromUngrantedIsRefused ==
    [][ ForwardRefused(update') => (UNCHANGED db /\ replies' = NotApproved) ]_vars

\* an admin forwarded a post with neither text nor caption from a channel
\* without a grant and got the explanation
C8_Witness ==
    /\ ForwardRefused(update)
    /\ ~HasText(update.effective_message[1])
    /\ replies = NotApproved

\* C9 as stated: a live or forwarded post with neither text nor caption is
\* discarded with no table change and no reply.
C9_Original ==
    [][ ((IsLivePost(update') \/ IsForward(update'))
            /\ ~HasText(update'.effective_message[1])) =>
            (UNCHANGED db /\ replies' = <<>>)
      ]_vars

\* C9 amended: an accepted post is stored with its text, or with its caption
\* when it has no text; a post with neither changes no table and gets no
\* reply, except that an admin's forward from a channel without a grant gets
\* the "not approved" reply; every stored Message has a non-empty text.
C9_TextThenCaption ==
    [][ /\ (LiveAccepted(update') \/ ForwardAccepted(update')) =>
              \E r \in messages' :
                  /\ SameKey(r, Ingested(update'))
                  /\ r.text = TextOrCaption(update'.effective_message[1])
        /\ ((IsLivePost(update') \/ IsForward(update'))
                /\ ~HasText(update'.effective_message[1])) =>
              /\ UNCHANGED db
              /\ replies' = IF ForwardRefused(update') THEN NotApproved ELSE <<>>
        /\ \A r \in messages' : r.text # <<>>
      ]_vars

\* a live post with neither text nor caption from a granted channel was
\* discarded while that channel has a stored Message
C9_Witness ==
    /\ IsLivePost(update)
    /\ ~HasText(update.effective_message[1])
    /\ Granted(allowed_channels, update.effective_message[1].chat.id)
    /\ replies = <<>>
    /\ \E r \in messages : r.channel_id = update.effective_message[1].chat.id

\* C10: the search structure is the projection of the Message rows: its
\* postings are those of the rows' current text and title, and after an
\* update no term that only the old text or title had matches the row.
C10_IndexIsProjection ==
    /\ messages_fts =
          UNION {Postings(r.rowid, r.text, r.channel_title) : r \in messages}
    /\ \A r \in messages : \E e \in messages_fts : e.rowid = r.rowid
    /\ trigger.name = "messages_au" =>
          \A e \in Postings(trigger.old[1].rowid, trigger.old[1].text,
                            trigger.old[1].channel_title) :
              (\A n \in Postings(trigger.new[1].rowid, trigger.new[1].text,
                                 trigger.new[1].channel_title) : n.term # e.term)
                  => trigger.old[1].rowid \notin Match(messages_fts, e.term)

\* an update replaced a row's text and title, and a term of the old text is
\* gone from the row's postings
C10_Witness ==
    /\ trigger.name = "messages_au"
    /\ trigger.old[1].text # trigger.new[1].text
    /\ trigger.old[1].channel_title # trigger.new[1].channel_title
    /\ \E e \in Postings(trigger.old[1].rowid, trigger.old[1].text,
                         trigger.old[1].channel_title) :
          \A f \in messages_fts : f.rowid = e.rowid => f.term # e.term

\* the handler that has just returned granted / revoked channel c
JustGranted(c) ==
    /\ update.handler = "allow_channel"
    /\ replies = <<[text |-> "Channel allowed: ", data |-> {c}]>>
JustRevoked(c) ==
    /\ update.handler = "remove_channel"
    /\ replies = <<[text |-> "Channel removed: ", data |-> {c}]>>

\* C11: a grant or revoke is visible to the very next event: the live post
\* with text that follows grant_channel(c) from c is stored; after
\* revoke_channel(c) the next live post from c is discarded, the next forward
\* from c is not stored (and an admin's is answered 'not approved'), and the
\* next search returns no message of c.
C11_VisibleToNextEvent ==
    [][ \A c \in {100, 200} :
          /\ (JustGranted(c) /\ IsLivePost(update')
                  /\ update'.effective_message[1].chat.id = c
                  /\ HasText(update'.effective_message[1])) =>
                \E r \in messages' : WithoutRowid(r) = Ingested(update')
          /\ (JustRevoked(c) /\ IsLivePost(update')
                  /\ update'.effective_message[1].chat.id = c) =>
                /\ UNCHANGED <<messages, messages_fts>>
                /\ replies' = <<>>
          /\ (JustRevoked(c) /\ IsForward(update') /\ FromChannel(update')
                  /\ update'.effective_message[1].forward_from_chat[1].id = c) =>
                /\ UNCHANGED <<messages, messages_fts>>
                /\ IsAdmin(bot_admins, update'.effective_user) => replies' = NotApproved
          /\ (JustRevoked(c) /\ update'.handler = "search_messages") =>
                \A r \in results' : r.channel_id # c
      ]_vars

\* a live post with text from channel 100 was discarded although the store
\* holds posts of channel 100 from the time it was granted
C11_Witness ==
    /\ IsLivePost(update)
    /\ update.effective_message[1].chat.id = 100
    /\ HasText(update.effective_message[1])
    /\ ~Granted(allowed_channels, 100)
    /\ \E r \in messages : r.channel_id = 100
    /\ trigger = NoTrigger
    /\ replies = <<>>

\* a text message in a private chat, which is what search_messages works on
IsQuery(u) ==
    /\ u.handler = "search_messages"
    /\ u.type = "message"
    /\ u.effective_message[1].chat.type = "private"
    /\ u.effective_message[1].text # None
    /\ u.effective_message[1].text[1] # <<>>
NonSpace(text) == Cardinality({i \in 1 .. Len(text) : text[i] \notin {" ", "\n"}})
TooShort == Said("Please type at least 2 characters to search.")
SearchOutcomes ==
    { Said("I couldn't understand that search. Try simple keywords like: budget report"),
      Said("No results found. Try another keyword."),
      Said("Search results") }

\* C12: for every text, the 'too short' reply is sent, and no search is run,
\* exactly when the text holds fewer than 2 non-space characters; otherwise
\* the search is run and one of its outcomes is the reply.
C12_TooShortIffUnderTwo ==
    [][ IsQuery(update') =>
          IF NonSpace(update'.effective_message[1].text[1]) < 2
          THEN replies' = TooShort /\ results' = {} /\ rendered' = <<>>
          ELSE replies' \in SearchOutcomes
      ]_vars

\* a text of two or more characters rejected for holding one non-space one
C12_Witness ==
    /\ IsQuery(update)
    /\ Len(update.effective_message[1].text[1]) > 2
    /\ NonSpace(update.effective_message[1].text[1]) = 1
    /\ replies = TooShort

Dots == <<".", ".", ".">>
EndsWithDots(s) == Len(s) >= 3 /\ SubSeq(s, Len(s) - 2, Len(s)) = Dots
\* the body as format_result shows it: trimmed, its newlines made spaces
Shown(body) == Replace(Strip(body), "\n", " ")

\* C13 as stated: every snippet has at most 160 characters, a body longer
\* than 160 characters is rendered as its first 157 characters and "...", and
\* a body of at most 160 characters is rendered without the marker.
C13_Original ==
    \A result \in DOMAIN rendered :
        /\ Len(rendered[result].snippet) <= 160
        /\ Len(result.text) > 160 =>
              rendered[result].snippet = SubSeq(result.text, 1, 157) \o Dots
        /\ Len(result.text) <= 160 => ~EndsWithDots(rendered[result].snippet)

\* C13 (amended): every snippet has at most 160 characters; the body is first
\* trimmed and its newlines replaced by spaces; if that leaves more than 160
\* characters the snippet is the first 157 of them and "...", otherwise the
\* snippet is all of them, with no marker.
C13_SnippetOfTrimmedBody ==
    \A result \in DOMAIN rendered :
        /\ Len(rendered[result].snippet) <= 160
        /\ Len(Shown(result.text)) > 160 =>
              rendered[result].snippet = SubSeq(Shown(result.text), 1, 157) \o Dots
        /\ Len(Shown(result.text)) <= 160 =>
              rendered[result].snippet = Shown(result.text)

\* a body of more than 160 characters with a newline was cut to 160
C13_Witness ==
    \E result \in DOMAIN rendered :
        /\ Len(result.text) > 160
        /\ \E i \in 1 .. Len(result.text) : result.text[i] = "\n"
        /\ Len(rendered[result].snippet) = 160
        /\ EndsWithDots(rendered[result].snippet)

Malformed(text) == Cardinality({i \in 1 .. Len(text) : text[i] = "\""}) % 2 = 1
Hint == Said("I couldn't understand that search. Try simple keywords like: budget report")

\* C15: a query the text-search engine rejects as malformed gets exactly one
\* reply, the corrective hint; the handler returns normally, renders no
\* result and leaves the store as it was.
C15_MalformedQueryGetsHint ==
    [][ (/\ IsQuery(update')
         /\ NonSpace(update'.effective_message[1].text[1]) >= 2
         /\ Malformed(update'.effective_message[1].text[1])) =>
          /\ replies' = Hint
          /\ raised' = ""
          /\ results' = {} /\ rendered' = <<>>
          /\ UNCHANGED <<messages, messages_fts, bot_admins, allowed_channels>>
      ]_vars

\* a query with an unterminated string was answered with the hint while the
\* store holds a post
C15_Witness ==
    /\ IsQuery(update)
    /\ Malformed(update.effective_message[1].text[1])
    /\ \E i \in 1 .. Len(update.effective_message[1].text[1]) :
           update.effective_message[1].text[1][i] = "a"
    /\ replies = Hint
    /\ raised = ""
    /\ messages # {}

IdCommands == {"add_admin", "remove_admin", "allow_channel", "remove_channel"}
OwnerCommands == {"add_admin", "remove_admin"}
Numeric(arg) ==
    /\ \E i \in 1 .. Len(arg) : arg[i] # "-"
    /\ \A i \in 1 .. Len(arg) :
          arg[i] \in {"0", "1", "2", "3", "4", "5", "6", "7", "8", "9"}
              \/ (i = 1 /\ arg[i] = "-")
\* a command that takes an id and came without one, or with one not a number
BadIdCommand(u) ==
    /\ u.handler \in IdCommands
    /\ u.args = <<>> \/ ~Numeric(u.args[1])
UsageHint(u) ==
    IF u.args = <<>>
    THEN Said([add_admin |-> "Usage: /add_admin <user_id>",
               remove_admin |-> "Usage: /remove_admin <user_id>",
               allow_channel |-> "Usage: /allow_channel <channel_id>",
               remove_channel |-> "Usage: /remove_channel <channel_id>"][u.handler])
    ELSE IF u.handler \in OwnerCommands THEN Said("user_id must be a number.")
    ELSE Said("channel_id must be a number.")
OwnersOnly(u) ==
    Said([add_admin |-> "Only OWNER_USER_ID can add bot managers.",
          remove_admin |-> "Only OWNER_USER_ID can remove bot managers."][u.handler])

\* C16 as stated: a command whose id argument is missing or not a number is
\* always answered with the usage hint, raises nothing and leaves the admins,
\* the grants and the messages as they were.
C16_Original ==
    [][ BadIdCommand(update') =>
          /\ replies' = UsageHint(update')
          /\ raised' = ""
          /\ UNCHANGED <<bot_admins, allowed_channels, messages>>
      ]_vars

\* C16 (amended): such a command raises nothing, leaves the admins, the
\* grants and the messages as they were, and gets exactly one reply: the
\* usage hint when its actor is authorised for the command (an admin; the
\* owner for add_admin and remove_admin), the denial of the failed
\* authorisation check otherwise.
C16_BadIdIsReported ==
    [][ BadIdCommand(update') =>
          /\ raised' = ""
          /\ UNCHANGED <<bot_admins, allowed_channels, messages>>
          /\ replies' =
                IF ~IsAdmin(bot_admins, update'.effective_user) THEN ManagersOnly
                ELSE IF update'.handler \in OwnerCommands /\ ~IsOwner(update'.effective_user)
                THEN OwnersOnly(update')
                ELSE UsageHint(update')
      ]_vars

\* an admin who is not the owner got the usage hint of /allow_channel for an
\* argument that is not a number
C16_Witness ==
    /\ update.handler = "allow_channel"
    /\ update.args = <<NotANumber>>
    /\ IsAdmin(bot_admins, update.effective_user)
    /\ ~IsOwner(update.effective_user)
    /\ replies = Said("channel_id must be a number.")
    /\ allowed_channels # {}

\* C17: in every reachable state the added_by of every allowed_channels row
\* is the user_id of a bot_admins row.
C17_AddedByIsAdmin ==
    \A c \in allowed_channels : c.added_by \in bot_admins

\* C18: a call of ensure_owner with a positive owner id leaves the admins it
\* found plus that id, and a further call changes nothing; with an id <= 0 it
\* leaves the admins as they were.  A startup with an owner id <= 0 aborts
\* with the configuration error and writes nothing, and from then on no
\* update is handled; updates are handled only after a startup that put a
\* positive owner id among the admins.
C18_EnsureOwnerAndStartup ==
    [][ /\ (pc = "starting" /\ pc' = "starting") =>
              /\ bot_admins' = IF OWNER_USER_ID > 0
                               THEN bot_admins \cup {OWNER_USER_ID} ELSE bot_admins
              /\ ensure_owner(bot_admins', OWNER_USER_ID) = bot_admins'
        /\ (pc = "starting" /\ pc' # "starting") =>
              IF OWNER_USER_ID <= 0
              THEN /\ pc' = "aborted"
                   /\ raised' = "RuntimeError"
                   /\ UNCHANGED <<db, update>>
              ELSE /\ pc' = "running"
                   /\ bot_admins' = bot_admins \cup {OWNER_USER_ID}
        /\ pc # "aborted"
        /\ update' # update => pc = "running" /\ OWNER_USER_ID > 0
      ]_vars

\* a startup with an owner id <= 0 aborted on a database that holds admins,
\* left them as they were and handled no update
C18_Witness ==
    /\ pc = "aborted"
    /\ OWNER_USER_ID <= 0
    /\ raised = "RuntimeError"
    /\ bot_admins # {}
    /\ update = NoUpdate

\* C19: however two concurrent ingestions of one key are ordered, once an
\* upsert has committed, and so when both have, the store holds exactly one
\* row for the key; its title, handle, timestamp and text are all those of
\* the ingestion that committed last, and the index holds the postings of
\* that row and no others.
C19_LastCommitWins ==
    update # NoUpdate =>
        \E r \in messages :
            /\ messages = {r}
            /\ WithoutRowid(r) = Ingested(update)
            /\ messages_fts = Postings(r.rowid, Ingested(update).text,
                                       Ingested(update).channel_title)

\* both tasks have run, and the second replaced a row the first had written
\* that differed from its own in title, handle, timestamp and text
C19_Witness ==
    /\ tasks = {}
    /\ trigger.name = "messages_au"
    /\ \E u1 \in SameKeyIngestions :
          /\ u1 # update
          /\ WithoutRowid(trigger.old[1]) = Ingested(u1)
          /\ Ingested(u1).channel_title # Ingested(update).channel_title
          /\ Ingested(u1).channel_username # Ingested(update).channel_username
          /\ Ingested(u1).posted_at # Ingested(update).posted_at
          /\ Ingested(u1).text # Ingested(update).text
    /\ WithoutRowid(trigger.new[1]) = Ingested(update)

\* an /allow_channel of an admin with a number for argument: the handler
\* goes on to resolve the chat
ResolvesChat(u) ==
    /\ u.handler = "allow_channel"
    /\ IsAdmin(bot_admins, u.effective_user)
    /\ u.args # <<>>
    /\ Numeric(u.args[1])
\* the grant /allow_channel is to write for the chat it resolved
GrantOf(u) ==
    [channel_id |-> u.get_chat[1].id,
     channel_title |-> IF u.get_chat[1].title # None /\ u.get_chat[1].title[1] # <<>>
                       THEN u.get_chat[1].title[1] ELSE UnknownChannel,
     channel_username |-> u.get_chat[1].username,
     added_by |-> u.effective_user[1]]

\* C20: when the chat cannot be resolved, or is resolved to a chat that is
\* not a channel, /allow_channel writes nothing and sends one explanation;
\* it changes the grants only after resolving a channel, and the grant it
\* writes carries the resolved id, title and handle.
C20_AllowChannelFailsClosed ==
    [][ /\ ResolvesChat(update') =>
              IF update'.get_chat = None
              THEN /\ UNCHANGED <<messages, messages_fts, bot_admins, allowed_channels>>
                   /\ replies' = Said("I can't access this channel. Add me as admin first, then retry.")
              ELSE IF update'.get_chat[1].type # "channel"
              THEN /\ UNCHANGED <<messages, messages_fts, bot_admins, allowed_channels>>
                   /\ replies' = Said("This chat_id is not a channel.")
              ELSE /\ GrantOf(update') \in allowed_channels'
                   /\ \A c \in allowed_channels' :
                          c = GrantOf(update') \/
                              (c \in allowed_channels /\ c.channel_id # GrantOf(update').channel_id)
        /\ (update'.handler = "allow_channel" /\ allowed_channels' # allowed_channels) =>
              /\ update'.get_chat # None
              /\ update'.get_chat[1].type = "channel"
              /\ GrantOf(update') \in allowed_channels'
      ]_vars

\* an admin asked to allow a chat that resolved to a group: refused with the
\* explanation, the grant already held left as it was
C20_Witness ==
    /\ update.handler = "allow_channel"
    /\ IsAdmin(bot_admins, update.effective_user)
    /\ update.get_chat # None
    /\ update.get_chat[1].type = "supergroup"
    /\ replies = Said("This chat_id is not a channel.")
    /\ allowed_channels # {}

====
